---- MODULE Spec2Model ----
(***************************************************************************)
(* A model of replot: the ASCII grid parser (replot/grid/parser.py), the   *)
(* custom keyword arguments handling (replot/helpers/custom_kwargs.py) and *)
(* the Figure object (replot/figure.py).                                   *)
(*                                                                         *)
(* Python values are modelled as follows.  A string is a sequence of       *)
(* one-character strings, a list or a tuple is a sequence, a dict is a     *)
(* function from its keys (strings) to values.  Values that Python keeps   *)
(* in one variable but that have different types (None, False, a dict)     *)
(* are records with a "tag" field.  Positions in the code are 0-based, the *)
(* sequences of the model are 1-based: M[n_y][n_x] is M[n_y + 1][n_x + 1]. *)
(***************************************************************************)
EXTENDS Integers, Sequences, FiniteSets, TLC

VARIABLES
    M,          \* the argument of the current parse_ascii call
    parsed,     \* what parse_ascii returned for M ("pending" before the call)
    kwargs_arg, \* the dict given to custom_kwargs.parse, as it was at the call
    kwargs,     \* the same dict object, which parse edits in place
    parse_ret,  \* what custom_kwargs.parse returned or raised
    plot_,      \* the plot command given to edit_plot_command
    custom_kwargs, \* the custom kwargs given to edit_plot_command
    edited,     \* what edit_plot_command returned or raised
    sample_args, \* the function, interval and tolerance given to the sampler
    stack,      \* the sampler's work stack of (lo, hi, depth) triples
    accepted,   \* the segments the sampler accepted so far, as such triples
    sample_ret, \* what the sampler returned or raised
    optimal_arg, \* the argument of the current call of layout.optimal
    optimal_ret, \* what layout.optimal returned or raised
    batch_args, \* the iterable and the size given to tools.batch
    batch_ret,  \* the batches tools.batch yielded, each as a list
    grid,       \* Figure.grid
    plots,      \* Figure.plots: group -> list of plot commands
    legend,     \* Figure.legend
    axes,       \* the axes of the last render: group -> subplot or None
    drawn,      \* the figure the last render returned: what is on each subplot
    savepath,   \* Figure.savepath
    animation,  \* Figure.animation: type, args, kwargs and persist
    DEFAULT_ANIMATION_KWARGS, \* the dict of that name of replot.constants
    calls,      \* the calls the last call made in turn, in order
    call,       \* the last call made on the figure, with its arguments
    exc         \* how the last call ended: "none", "ok" or an exception name

vars == <<M, parsed, kwargs_arg, kwargs, parse_ret,
          plot_, custom_kwargs, edited,
          sample_args, stack, accepted, sample_ret,
          optimal_arg, optimal_ret, batch_args, batch_ret,
          grid, plots, legend, axes, drawn,
          savepath, animation, DEFAULT_ANIMATION_KWARGS, calls, call, exc>>

-----------------------------------------------------------------------------
(* Bounds of the model *)

\* grid descriptions have at most MaxHeight rows
MaxHeight == 2
\* tools.batch is called on lists of at most MaxBatched items
MaxBatched == 3
\* and with a size of at most MaxSize
MaxSize == 3

\* layout.optimal is called with at most MaxItems items
MaxItems == 60

\* rows of grid descriptions have at most MaxWidth characters
MaxWidth == 3

\* a call of plot is given at most MaxKwargs keyword arguments
MaxKwargs == 3

\* a series of points has at most MaxLen points
MaxLen == 2

\* the coordinates of the points of a series
Coordinates == {-1, 0, 2}

\* a grid description given to Figure.set_grid has at most MaxRows rows of
\* at most MaxCols characters each
MaxRows == 2
MaxCols == 2

\* a figure is given at most MaxPlots plots
MaxPlots == 2

\* the recursion-depth bound of the adaptive sampler
max_depth == 2

\* a figure that is rendered has at most MaxPerGroup plots in each group
MaxPerGroup == 1

\* the symbols grid descriptions are drawn from
Symbols == {"A", "B", "C"}

\* the example of the docstring of parse_ascii
DocExample == << <<"A", "A", "A">>, <<"B", "B", "C">>, <<"D", "E", "C">> >>

-----------------------------------------------------------------------------
(* Python values *)

None == [tag |-> "None"]
False == [tag |-> "False"]
Pending == [tag |-> "pending"]
Raised(e) == [tag |-> "raised", exception |-> e]

\* all sequences over S of length lo..hi
SeqsOf(S, lo, hi) == UNION {[1..n -> S] : n \in lo..hi}

-----------------------------------------------------------------------------
(* replot/grid/parser.py *)

\* _check_rect looking at the first row of the rectangle only
_check_rect_first_row(n_x, n_y, dx, dy, symbol, M_) ==
    \A x \in 0..(dx - 1) : M_[n_y + 1][n_x + x + 1] = symbol

\* the test of _check_rect, line 121, quantified over its two loops
_check_rect(n_x, n_y, dx, dy, symbol, M_) ==
    \A x \in 0..(dx - 1) : \A y \in 0..(dy - 1) :
        M_[n_y + y + 1][n_x + x + 1] = symbol

\* _set_as_done: elements_done is modelled as the set of the (y, x) set to 1
_set_as_done(n_x, n_y, dx, dy, elements_done) ==
    elements_done \cup
        {<<n_y + y, n_x + x>> : y \in 0..(dy - 1), x \in 0..(dx - 1)}

\* lines 73-75: one more column for every later cell of the row that holds the symbol
ColSpan(M_, n_x, n_y, width) ==
    1 + Cardinality({t \in (n_x + 1)..(width - 1) :
                        M_[n_y + 1][t + 1] = M_[n_y + 1][n_x + 1]})

\* lines 77-79: one more row for every later cell of the column that holds the symbol
RowSpan(M_, n_x, n_y, height) ==
    1 + Cardinality({t \in (n_y + 1)..(height - 1) :
                        M_[t + 1][n_x + 1] = M_[n_y + 1][n_x + 1]})

\* The k-th cell visited by the two nested loops of lines 53-54: the outer loop
\* runs over the columns n_x, the inner one over the rows n_y.
ScanX(k, height) == k \div height
ScanY(k, height) == k % height

\* line 60 without the test of symbols_found
SymbolFound_never(symbol, symbols_found) == FALSE

\* line 60: a symbol met on a cell not yet assigned, after its rectangle was stored
SymbolFound(symbol, symbols_found) == symbol \in symbols_found

\* The loop of lines 53-96 from the k-th visited cell on.
RECURSIVE ParseLoop(_, _, _, _, _, _, _)
ParseLoop(M_, height, width, k, symbols_found, elements_done, subplot_list) ==
    IF k >= width * height
    THEN [tag |-> "grid", width |-> width, height |-> height,
          grid |-> subplot_list]
    ELSE LET n_x == ScanX(k, height)
             n_y == ScanY(k, height)
             current_symbol == M_[n_y + 1][n_x + 1]
             colspan == ColSpan(M_, n_x, n_y, width)
             rowspan == RowSpan(M_, n_x, n_y, height)
         IN  IF <<n_y, n_x>> \in elements_done
             THEN ParseLoop(M_, height, width, k + 1,
                            symbols_found, elements_done, subplot_list)
             ELSE IF SymbolFound(current_symbol, symbols_found)
             THEN None
             ELSE IF _check_rect(n_x, n_y, colspan, rowspan, current_symbol, M_)
             THEN ParseLoop(M_, height, width, k + 1,
                            symbols_found \cup {current_symbol},
                            _set_as_done(n_x, n_y, colspan, rowspan, elements_done),
                            Append(subplot_list,
                                   << <<n_y, n_x>>, current_symbol,
                                      <<rowspan, colspan>> >>))
             ELSE None

\* parse_ascii storing the spans of a region as (colspan, rowspan)
parse_ascii_spans_swapped(M_) ==
    IF Len(M_) = 0
    THEN Raised("IndexError")
    ELSE LET ret == ParseLoop(M_, Len(M_), Len(M_[1]), 0, {}, {}, <<>>)
         IN  IF ret.tag = "grid"
             THEN [ret EXCEPT !.grid =
                      [i \in DOMAIN ret.grid |->
                          <<ret.grid[i][1], ret.grid[i][2],
                            <<ret.grid[i][3][2], ret.grid[i][3][1]>> >>]]
             ELSE ret

\* parse_ascii(M): M[0] raises IndexError on an empty list (line 42)
parse_ascii(M_) ==
    IF Len(M_) = 0
    THEN Raised("IndexError")
    ELSE ParseLoop(M_, Len(M_), Len(M_[1]), 0, {}, {}, <<>>)

\* The rectangular descriptions (all rows of the same length), the empty list
\* and the lists of empty rows included.
RectDescriptions ==
    UNION {[1..h -> [1..w -> Symbols]] : h \in 0..MaxHeight, w \in 0..MaxWidth}
        \cup {DocExample}

-----------------------------------------------------------------------------
(* replot/constants.py *)

\* the reserved group "_", a string of one character
DEFAULT_GROUP == <<"_">>

-----------------------------------------------------------------------------
(* replot/helpers/custom_kwargs.py: parse *)

\* dict operations: d[k] = val, del d[k], k in d
DictSet(d, k, val) == [x \in DOMAIN d \cup {k} |-> IF x = k THEN val ELSE d[x]]
DictDel(d, k) == [x \in DOMAIN d \ {k} |-> d[x]]
EmptyDict == << >>

\* line 22: the frame of a plot that gives none
DefaultFrame == 0

\* lines 20-23
DefaultCustomKwargs == DictSet(EmptyDict, "frame", DefaultFrame)

\* lines 48-55
custom_args ==
    <<"frame", "invert", "logscale", "orthonormal", "rotate", "xlim", "ylim">>

\* the test of the group without the test of its length
GroupError_no_length(kw) ==
    /\ "group" \in DOMAIN kw
    /\ kw["group"] = DEFAULT_GROUP

\* lines 26-31: the group is refused (the length is tested first)
GroupError(kw) ==
    /\ "group" \in DOMAIN kw
    /\ \/ Len(kw["group"]) > 1
       \/ kw["group"] = DEFAULT_GROUP

\* The statements of parse act on st = [kwargs, custom_kwargs].
\* lines 25-33, once the group is accepted
HandleGroup(st) ==
    IF "group" \in DOMAIN st.kwargs
    THEN [kwargs |-> DictDel(st.kwargs, "group"),
          custom_kwargs |-> DictSet(st.custom_kwargs, "group", st.kwargs["group"])]
    ELSE st

\* lines 35-39
HandleLine(st) ==
    IF "line" \in DOMAIN st.kwargs
    THEN [st EXCEPT !.kwargs =
            IF ~st.kwargs["line"]
            THEN DictDel(DictSet(DictSet(st.kwargs, "linestyle", "None"),
                                 "marker", "x"), "line")
            ELSE DictDel(st.kwargs, "line")]
    ELSE st

\* lines 41-42 (alias = "xrange", name = "xlim") and 44-45 ("yrange", "ylim")
HandleAlias(st, alias, name) ==
    IF alias \in DOMAIN st.kwargs
    THEN [st EXCEPT !.kwargs = DictSet(st.kwargs, name, st.kwargs[alias])]
    ELSE st

\* lines 56-59, from the i-th name of custom_args on
RECURSIVE HandleCustomArgs(_, _)
HandleCustomArgs(st, i) ==
    IF i > Len(custom_args)
    THEN st
    ELSE LET custom_arg == custom_args[i]
         IN  IF custom_arg \in DOMAIN st.kwargs
             THEN HandleCustomArgs(
                    [kwargs |-> DictDel(st.kwargs, custom_arg),
                     custom_kwargs |-> DictSet(st.custom_kwargs, custom_arg,
                                               st.kwargs[custom_arg])],
                    i + 1)
             ELSE HandleCustomArgs(st, i + 1)

\* parse(kwargs): the exception raised, with the dict as the call leaves it,
\* or the tuple (kwargs, custom_kwargs); the first is the dict given, edited.
parse(kw) ==
    IF GroupError(kw)
    THEN [tag |-> "raised", exception |-> "InvalidParameterError",
          kwargs |-> kw]
    ELSE LET st0 == [kwargs |-> kw, custom_kwargs |-> DefaultCustomKwargs]
             st1 == HandleGroup(st0)
             st2 == HandleLine(st1)
             st3 == HandleAlias(st2, "xrange", "xlim")
             st4 == HandleAlias(st3, "yrange", "ylim")
             st5 == HandleCustomArgs(st4, 1)
         IN  [tag |-> "tuple", kwargs |-> st5.kwargs,
              custom_kwargs |-> st5.custom_kwargs]

\* The keyword arguments given to plot: the options of replot (the docstring
\* of Figure.plot, figure.py lines 258-280) and some of matplotlib.
ReplotOptions ==
    {"group", "line", "logscale", "orthonormal", "xlim", "ylim",
     "xrange", "yrange", "invert", "rotate", "frame"}
KwargKeys ==
    <<"group", "line", "logscale", "orthonormal", "xlim", "ylim",
      "xrange", "yrange", "invert", "rotate", "frame",
      "label", "linestyle", "marker", "color">>
KwargValues(k) ==
    CASE k = "group" -> {<<"A">>, DEFAULT_GROUP, <<"A", "B">>, << >>}
      [] k \in {"line", "invert", "orthonormal"} -> {TRUE, FALSE}
      [] k = "logscale" -> {"log"}
      [] k \in {"xlim", "ylim"} -> {<<0, 1>>}
      [] k \in {"xrange", "yrange"} -> {<<2, 3>>}
      [] k = "rotate" -> {0, 90, 180, 270}
      [] k = "frame" -> {1}
      [] k = "label" -> {"l"}
      [] k = "linestyle" -> {"-"}
      [] k = "marker" -> {"o"}
      [] OTHER -> {"red"}

\* the dicts of at most n of the keys KwargKeys[i], KwargKeys[i + 1], ...
RECURSIVE DictsFrom(_, _)
DictsFrom(i, n) ==
    IF i > Len(KwargKeys) \/ n = 0
    THEN {EmptyDict}
    ELSE DictsFrom(i + 1, n) \cup
         {DictSet(d, KwargKeys[i], x) :
             x \in KwargValues(KwargKeys[i]), d \in DictsFrom(i + 1, n - 1)}

KwargsInputs == DictsFrom(1, MaxKwargs)

-----------------------------------------------------------------------------
(* replot/helpers/custom_kwargs.py: edit_plot_command *)

\* A plot command (args, kwargs) or (args, kwargs, custom_kwargs) is a record;
\* args is the tuple of the positional arguments.
PlotCommand(args, kw, custom) ==
    [tag |-> "plot", args |-> args, kwargs |-> kw, custom_kwargs |-> custom]

Min(a, b) == IF a < b THEN a ELSE b

\* args[n:] of Python, n 0-based
SliceFrom(args, n) == SubSeq(args, n + 1, Len(args))

\* np.cos and np.sin of np.deg2rad(angle), line 91, on the quarter turns,
\* where the model has their exact values (the code computes them in double
\* precision, within 2e-16 of these)
CosDeg(angle) ==
    CASE angle % 360 = 0 -> 1
      [] angle % 360 = 90 -> 0
      [] angle % 360 = 180 -> -1
      [] angle % 360 = 270 -> 0
SinDeg(angle) ==
    CASE angle % 360 = 0 -> 0
      [] angle % 360 = 90 -> 1
      [] angle % 360 = 180 -> 0
      [] angle % 360 = 270 -> -1

\* new_X_list with the sign of the sine term exchanged
RotateX_ccw(angle, x, y) == CosDeg(angle) * x - SinDeg(angle) * y

\* lines 92-94 and 95-97
RotateX(angle, x, y) == CosDeg(angle) * x + SinDeg(angle) * y
RotateY(angle, x, y) == (-SinDeg(angle)) * x + CosDeg(angle) * y

\* the inversion that forgets the arguments after the first two
Invert_two_only(p) ==
    IF "invert" \in DOMAIN p.custom_kwargs /\ p.custom_kwargs["invert"]
    THEN IF Len(p.args) < 2
         THEN Raised("IndexError")
         ELSE [p EXCEPT !.args = <<p.args[2], p.args[1]>>]
    ELSE p

\* lines 78-82: plot_[0][1] raises IndexError on less than two arguments
Invert(p) ==
    IF "invert" \in DOMAIN p.custom_kwargs /\ p.custom_kwargs["invert"]
    THEN IF Len(p.args) < 2
         THEN Raised("IndexError")
         ELSE [p EXCEPT !.args = <<p.args[2], p.args[1]>> \o SliceFrom(p.args, 2)]
    ELSE p

\* lines 85-100: zip stops at the end of the shorter of the two series
Rotate(p) ==
    IF "rotate" \in DOMAIN p.custom_kwargs
    THEN IF Len(p.args) < 2
         THEN Raised("IndexError")
         ELSE LET X == p.args[1]
                  Y == p.args[2]
                  n == Min(Len(X), Len(Y))
                  angle == p.custom_kwargs["rotate"]
                  new_X_list == [i \in 1..n |-> RotateX(angle, X[i], Y[i])]
                  new_Y_list == [i \in 1..n |-> RotateY(angle, X[i], Y[i])]
              IN  [p EXCEPT !.args =
                      <<new_X_list, new_Y_list>> \o SliceFrom(p.args, 2)]
    ELSE p

\* the rotation first and the inversion second; an exception ends the call
RotateThenInvert(p) ==
    IF Rotate(p).tag = "raised" THEN Rotate(p) ELSE Invert(Rotate(p))

\* lines 77-100: the inversion first and the rotation second
InvertThenRotate(p) ==
    IF Invert(p).tag = "raised" THEN Invert(p) ELSE Rotate(Invert(p))

\* edit_plot_command with the two steps exchanged
edit_plot_command_rotate_first(plot, custom) ==
    RotateThenInvert(PlotCommand(plot.args, plot.kwargs, custom))

\* edit_plot_command(plot_, custom_kwargs): line 75, then the two steps
edit_plot_command(plot, custom) ==
    InvertThenRotate(PlotCommand(plot.args, plot.kwargs, custom))

\* The arguments of edit_plot_command: series of points, as one series, as X
\* and Y, or as X, Y and a format string; the custom kwargs are those parse
\* returns for the options invert and rotate.
Series == SeqsOf(Coordinates, 0, MaxLen)
ArgsInputs ==
    {<<X>> : X \in Series}
        \cup {<<X, Y>> : X \in Series, Y \in Series}
        \cup {<<X, Y, "r-">> : X \in Series, Y \in Series}
CustomInputs ==
    {parse(d).custom_kwargs :
        d \in {k \in KwargsInputs : DOMAIN k \subseteq {"invert", "rotate"}}}
PlotInputs ==
    {PlotCommand(args, kw, EmptyDict) :
        args \in ArgsInputs, kw \in {EmptyDict, DictSet(EmptyDict, "label", "l")}}

-----------------------------------------------------------------------------
(* replot/adaptive_sampling.py: sample_function.  replot/helpers/plot.py   *)
(* imports the module and calls it, but its code is not among the sources: *)
(* it is modelled from section 4.1 of the specification.  Abscissas are    *)
(* integers, in a unit such that every midpoint down to the depth bound is *)
(* exact; values of the function are integers or a non-finite value.       *)

Abs(n) == IF n < 0 THEN -n ELSE n

\* the values of a function: a number, or NaN or an infinity
Finite(v) == [tag |-> "finite", val |-> v]
NonFinite == [tag |-> "nonfinite"]

\* the functions sampled: 3x + 1, x^2, x^3, |x| and a function that is 0
\* but for a pole at 0
Functions == {"linear", "square", "cube", "abs", "pole"}
Eval(f, x) ==
    CASE f = "linear" -> Finite(3 * x + 1)
      [] f = "square" -> Finite(x * x)
      [] f = "cube" -> Finite(x * x * x)
      [] f = "abs" -> Finite(Abs(x))
      [] f = "pole" -> IF x = 0 THEN NonFinite ELSE Finite(0)

\* step 1: mid = (lo + hi) / 2
Mid(lo, hi) == (lo + hi) \div 2

\* step 2 where a non-finite value counts as no error
ErrorAbove_finite_only(f, lo, hi, tol) ==
    LET y_lo == Eval(f, lo)
        y_mid == Eval(f, Mid(lo, hi))
        y_hi == Eval(f, hi)
    IN  /\ y_lo # NonFinite /\ y_mid # NonFinite /\ y_hi # NonFinite
        /\ Abs(2 * y_mid.val - y_lo.val - y_hi.val) > 2 * tol

\* step 2 where the estimate is |f(mid) - f(lo)|
ErrorAbove_from_lo(f, lo, hi, tol) ==
    LET y_lo == Eval(f, lo)
        y_mid == Eval(f, Mid(lo, hi))
    IN  \/ y_lo = NonFinite
        \/ y_mid = NonFinite
        \/ /\ y_lo # NonFinite /\ y_mid # NonFinite
           /\ Abs(2 * y_mid.val - 2 * y_lo.val) > 2 * tol

\* step 2 and the edge case of non-finite values: the error estimate
\* |f(mid) - (f(lo) + f(hi)) / 2| is above tol (both sides doubled); a
\* non-finite value is the maximal error
ErrorAbove(f, lo, hi, tol) ==
    LET y_lo == Eval(f, lo)
        y_mid == Eval(f, Mid(lo, hi))
        y_hi == Eval(f, hi)
    IN  \/ y_lo = NonFinite
        \/ y_mid = NonFinite
        \/ y_hi = NonFinite
        \/ /\ y_lo # NonFinite /\ y_mid # NonFinite /\ y_hi # NonFinite
           /\ Abs(2 * y_mid.val - y_lo.val - y_hi.val) > 2 * tol

\* step 3 without its bound on the depth
Subdivides_unbounded(f, seg, tol) == ErrorAbove(f, seg[1], seg[2], tol)

\* step 3: err > tol and depth < max_depth, for the triple (lo, hi, depth)
Subdivides(f, seg, tol) ==
    ErrorAbove(f, seg[1], seg[2], tol) /\ seg[3] < max_depth

\* step 5 without the deduplication
Concatenated_duplicates(xs, points) == xs \o points

\* step 5: deduplicate by x when concatenating; the point shared by two
\* sub-intervals is kept once
Concatenated(xs, points) ==
    IF Len(xs) > 0 /\ xs[Len(xs)] = points[1]
    THEN xs \o Tail(points)
    ELSE xs \o points

\* step 4: an accepted segment gives lo, mid and hi
SegmentPoints(seg) == <<seg[1], Mid(seg[1], seg[2]), seg[2]>>

\* steps 3 and 4 on the triple on top of the work stack: recurse on
\* [lo, mid] and [mid, hi], the left half first, or accept the segment and
\* add its points to the polyline
SamplerStep(f, tol, st) ==
    LET seg == Head(st.stack)
        mid == Mid(seg[1], seg[2])
    IN  IF Subdivides(f, seg, tol)
        THEN [stack |-> << <<seg[1], mid, seg[3] + 1>>,
                           <<mid, seg[2], seg[3] + 1>> >> \o Tail(st.stack),
              accepted |-> st.accepted,
              x_values |-> st.x_values]
        ELSE [stack |-> Tail(st.stack),
              accepted |-> Append(st.accepted, seg),
              x_values |-> Concatenated(st.x_values, SegmentPoints(seg))]

RECURSIVE RunSampler(_, _, _)
RunSampler(f, tol, st) ==
    IF st.stack = << >> THEN st ELSE RunSampler(f, tol, SamplerStep(f, tol, st))

\* the work stack of a call on the interval
InitialStack(interval) == << <<interval[1], interval[2], 0>> >>

\* the polyline returned, as the tuple (x_values, y_values)
Polyline(f, xs) ==
    [tag |-> "tuple",
     x_values |-> xs,
     y_values |-> [i \in DOMAIN xs |-> Eval(f, xs[i])]]

\* sample_function(f, (lo, hi), tol): lo >= hi is an invalid interval
sample_function(f, interval, tol) ==
    IF interval[1] >= interval[2]
    THEN Raised("InvalidInterval")
    ELSE Polyline(f, RunSampler(f, tol, [stack |-> InitialStack(interval),
                                          accepted |-> << >>,
                                          x_values |-> << >>]).x_values)

\* the intervals given: bounds that are multiples of 2^(max_depth + 1)
Unit == 2 ^ (max_depth + 1)
Endpoints == {-Unit, 0, Unit}
Intervals == Endpoints \X Endpoints
Tolerances == {0, 4, 64}
SamplerInputs ==
    {[f |-> f, interval |-> i, tol |-> t] :
        f \in Functions, i \in Intervals, t \in Tolerances}

-----------------------------------------------------------------------------
(* replot/figure.py *)

\* Figure.__init__ with its default arguments: no grid, no plot, no legend
\* the dict DEFAULT_ANIMATION_KWARGS of replot.constants as the module
\* defines it
DefaultAnimationKwargs == [frames |-> 200, interval |-> 20, blit |-> TRUE]

\* Figure.animation as the constructor sets it, lines 94-96
NoAnimation ==
    [type |-> "False", args |-> << >>, kwargs |-> EmptyDict, persist |-> << >>]

\* a figure constructed without savepath, on which animate was not called,
\* in a module that was just imported
NotAnimated ==
    /\ savepath = None
    /\ animation = NoAnimation
    /\ DEFAULT_ANIMATION_KWARGS = DefaultAnimationKwargs
    /\ calls = << >>

\* nothing was rendered
NotRendered == axes = EmptyDict /\ drawn = EmptyDict

FigureInit ==
    /\ grid = None
    /\ plots = EmptyDict
    /\ legend = None
    /\ NotRendered
    /\ NotAnimated
    /\ call = [op |-> "none"]
    /\ exc = "none"

\* The grid_description of set_grid: False, None, a string (one row) or a
\* list of rows.
Str(row) == [tag |-> "str", val |-> row]
List(rows) == [tag |-> "list", val |-> rows]

\* lines 219-221: a single string is enclosed in a list
Enclosed(grid_description) ==
    IF grid_description.tag = "str"
    THEN List(<<grid_description.val>>)
    ELSE grid_description

\* line 223
IsEmptyList(grid_description) ==
    \/ grid_description = None
    \/ grid_description.tag = "list" /\ Len(grid_description.val) = 0

\* lines 226-227: a row differs in length from the first one
IsRagged(rows) == \E i \in DOMAIN rows : Len(rows[i]) # Len(rows[1])

\* set_grid that keeps what the parser returned, None included
set_grid_keeps_None(fig_grid, grid_description) ==
    LET d == Enclosed(grid_description)
    IN  IF grid_description = False
        THEN [grid |-> False, exc |-> "ok"]
        ELSE IF IsEmptyList(d) \/ IsRagged(d.val)
        THEN [grid |-> fig_grid, exc |-> "InvalidParameterError"]
        ELSE [grid |-> parse_ascii(d.val), exc |-> "ok"]

\* Figure.set_grid(grid_description), lines 215-238, for a figure whose grid
\* is fig_grid: the grid of the figure after the call and how the call ended.
set_grid(fig_grid, grid_description) ==
    LET d == Enclosed(grid_description)
    IN  IF grid_description = False
        THEN [grid |-> False, exc |-> "ok"]
        ELSE IF IsEmptyList(d) \/ IsRagged(d.val)
        THEN [grid |-> fig_grid, exc |-> "InvalidParameterError"]
        ELSE LET parsed_grid == parse_ascii(d.val)
             IN  IF parsed_grid = None
                 THEN [grid |-> fig_grid, exc |-> "InvalidParameterError"]
                 ELSE [grid |-> parsed_grid, exc |-> "ok"]

\* the symbols of the grid descriptions given to set_grid: a group and the
\* default group
FigSymbols == {"A", "_"}
FigRows == SeqsOf(FigSymbols, 0, MaxCols)
GridDescriptions ==
    {False, None}
        \cup {Str(row) : row \in FigRows}
        \cup {List(rows) : rows \in SeqsOf(FigRows, 0, MaxRows)}

\* The positional arguments of plot: lists of numbers, or a list of (x, y).
Numbers(X) == [tag |-> "numbers", val |-> X]
Pairs(P) == [tag |-> "pairs", val |-> P]

\* lines 308-317: zip(*args[0]) unpacked into x_list, y_list.  A list of
\* (x, y) becomes the two lists; on a list of numbers zip raises TypeError,
\* which is caught, unless the list is empty: then the unpacking fails with
\* ValueError, which is not caught.
Unzipped(args) ==
    IF args[1].tag = "pairs"
    THEN IF Len(args[1].val) = 0
         THEN Raised("ValueError")
         ELSE [tag |-> "args",
               val |-> <<Numbers([i \in DOMAIN args[1].val |-> args[1].val[i][1]]),
                         Numbers([i \in DOMAIN args[1].val |-> args[1].val[i][2]])>>
                       \o SliceFrom(args, 1)]
    ELSE IF Len(args[1].val) = 0
         THEN Raised("ValueError")
         ELSE [tag |-> "args", val |-> args]

\* the tuple of the lists themselves
Values(args) == [i \in DOMAIN args |-> args[i].val]

\* A function given to plot, and the tuple (lo, hi) of the bounds of an
\* interval.
Function(f) == [tag |-> "function", val |-> f]
Interval(lo, hi) == [tag |-> "tuple", val |-> <<lo, hi>>]

\* replot/helpers/plot.py, line 33: tol=1e-3, the values of the functions
\* being counted in thousandths
PlotTolerance == 1

\* plot_function where the bounds of the interval are taken as the points
\* to evaluate the function at
plot_function_evaluates_bounds(data, args, kw) ==
    IF Len(args) = 0
    THEN Raised("InvalidParameterError")
    ELSE IF args[1].tag \in {"tuple", "numbers"}
    THEN PlotCommand(<<args[1].val,
                       [i \in DOMAIN args[1].val |-> Eval(data, args[1].val[i])]>>
                     \o Values(SliceFrom(args, 1)), kw, EmptyDict)
    ELSE Raised("InvalidParameterError")

\* replot/helpers/plot.py: plot_function(data, *args, **kwargs), the plot
\* command (args, kwargs) it returns or the exception it lets through
plot_function(data, args, kw) ==
    IF Len(args) = 0
    THEN Raised("InvalidParameterError")
    ELSE IF args[1].tag = "tuple"
    THEN LET sampled == sample_function(data, args[1].val, PlotTolerance)
         IN  IF sampled.tag = "raised"
             THEN sampled
             ELSE PlotCommand(<<sampled.x_values, sampled.y_values>>
                              \o Values(SliceFrom(args, 1)), kw, EmptyDict)
    ELSE IF args[1].tag = "numbers"
    THEN PlotCommand(<<args[1].val,
                       [i \in DOMAIN args[1].val |-> Eval(data, args[1].val[i])]>>
                     \o Values(SliceFrom(args, 1)), kw, EmptyDict)
    ELSE Raised("InvalidParameterError")

\* lines 324-328
GroupOf(custom) ==
    IF "group" \in DOMAIN custom THEN custom["group"] ELSE DEFAULT_GROUP

\* line 328: plots is a defaultdict(list)
Appended(fig_plots, group_, plot) ==
    DictSet(fig_plots, group_,
            IF group_ \in DOMAIN fig_plots
            THEN Append(fig_plots[group_], plot)
            ELSE <<plot>>)

\* lines 302-318: the plot command of a function, or of series of points
FirstPlotCommand(args, kw) ==
    IF args[1].tag = "function"
    THEN plot_function(args[1].val, SliceFrom(args, 1), kw)
    ELSE IF Unzipped(args).tag = "raised"
    THEN Unzipped(args)
    ELSE PlotCommand(Values(Unzipped(args).val), kw, EmptyDict)

\* Figure.plot(*args, **kwargs), lines 294-333: the plots and the legend of
\* the figure after the call and how the call ended.
\* the legend set whenever a label is found
LegendAfterPlot_any_legend(fig_legend, kw) ==
    IF "label" \in DOMAIN kw THEN [tag |-> "True"] ELSE fig_legend

\* the legend after a plot was added: set automatically if a label is found
\* and the legend is None
LegendAfterPlot(fig_legend, kw) ==
    IF "label" \in DOMAIN kw /\ fig_legend = None
    THEN [tag |-> "True"]
    ELSE fig_legend

plot(fig_plots, fig_legend, args, kw) ==
    LET unchanged(e) == [plots |-> fig_plots, legend |-> fig_legend, exc |-> e]
    IN  IF Len(args) = 0
        THEN unchanged("InvalidParameterError")
        ELSE IF parse(kw).tag = "raised"
        THEN unchanged(parse(kw).exception)
        ELSE LET parsed_kw == parse(kw)
                 plot0 == FirstPlotCommand(args, parsed_kw.kwargs)
                 plot1 == edit_plot_command(plot0, parsed_kw.custom_kwargs)
             IN  IF plot0.tag = "raised"
                 THEN unchanged(plot0.exception)
                 ELSE IF plot1.tag = "raised"
                 THEN unchanged(plot1.exception)
                 ELSE [plots |-> Appended(fig_plots,
                                          GroupOf(parsed_kw.custom_kwargs), plot1),
                       legend |-> LegendAfterPlot(fig_legend, parsed_kw.kwargs),
                       exc |-> "ok"]

\* the calls of plot on the figure: no argument, one list, X and Y, or a
\* list of (x, y); the keyword arguments group and label
FigArgs ==
    {<< >>, <<Numbers(<<0, 2>>)>>, <<Numbers(<<0, 2>>), Numbers(<<2, -1>>)>>,
     <<Pairs(<< <<0, 2>>, <<2, -1>> >>)>>, <<Numbers(<< >>), Numbers(<< >>)>>}
\* the calls of plot with a function: with an interval (lo < hi, lo > hi,
\* lo = hi), with a list of points, with a list of (x, y) or with nothing
FunctionArgs ==
    {<<Function("square"), Interval(0, Unit)>>,
     <<Function("square"), Interval(Unit, 0)>>,
     <<Function("linear"), Interval(0, 0)>>,
     <<Function("abs"), Numbers(<<-1, 2>>)>>,
     <<Function("abs"), Pairs(<< <<0, 2>> >>)>>,
     <<Function("abs")>>}
FigKwargs == {d \in KwargsInputs : DOMAIN d \subseteq {"group", "label"}}

\* the number of plots of the figure
RECURSIVE NbPlotsOf(_, _)
NbPlotsOf(fig_plots, groups) ==
    IF groups = {}
    THEN 0
    ELSE LET g == CHOOSE x \in groups : TRUE
         IN  Len(fig_plots[g]) + NbPlotsOf(fig_plots, groups \ {g})
NbPlots == NbPlotsOf(plots, DOMAIN plots)

\* batch giving up at a last batch that is not full
RECURSIVE batch_full_only(_, _)
batch_full_only(iterable, size) ==
    IF Len(iterable) < size \/ size = 0
    THEN << >>
    ELSE <<SubSeq(iterable, 1, size)>>
         \o batch_full_only(SubSeq(iterable, size + 1, Len(iterable)), size)

\* replot/tools.py: batch(iterable, size), the batches as a list of lists.
\* With size 0 the first islice is empty and the generator returns at once.
RECURSIVE batch(_, _)
batch(iterable, size) ==
    IF Len(iterable) = 0 \/ size = 0
    THEN << >>
    ELSE <<SubSeq(iterable, 1, Min(size, Len(iterable)))>>
         \o batch(SubSeq(iterable, Min(size, Len(iterable)) + 1, Len(iterable)),
                  size)

\* math.floor(math.sqrt(n)), math.ceil(math.sqrt(n)) and math.ceil(a / b) on
\* the small integers of the model, where the floating-point results are exact
FloorSqrt(n) == CHOOSE k \in 0..n : k * k <= n /\ (k + 1) * (k + 1) > n
CeilSqrt(n) == CHOOSE k \in 0..n : k * k >= n /\ (k = 0 \/ (k - 1) * (k - 1) < n)
CeilDiv(a, b) == (a + b - 1) \div b

\* optimal without its first possibility
optimal_second_only(nb_items) ==
    LET height1 == FloorSqrt(nb_items)
        width2 == CeilSqrt(nb_items)
        height2 == CeilDiv(nb_items, width2)
    IN  IF height1 = 0
        THEN Raised("ZeroDivisionError")
        ELSE [tag |-> "tuple", height |-> height2, width |-> width2]

\* replot/grid/layout.py: optimal(nb_items), the tuple (height, width); with
\* no item height1 is 0 and the division of line 26 raises
optimal(nb_items) ==
    LET height1 == FloorSqrt(nb_items)
        width1 == CeilDiv(nb_items, height1)
        width2 == CeilSqrt(nb_items)
        height2 == CeilDiv(nb_items, width2)
    IN  IF height1 = 0
        THEN Raised("ZeroDivisionError")
        ELSE IF height1 * width1 < height2 * width2
        THEN [tag |-> "tuple", height |-> height1, width |-> width1]
        ELSE [tag |-> "tuple", height |-> height2, width |-> width2]

\* the code points of the characters of group names
Ord(c) ==
    CASE c = "A" -> 65
      [] c = "B" -> 66
      [] c = "C" -> 67
      [] c = "D" -> 68
      [] c = "_" -> 95

\* a < b on Python strings
StrLess(a, b) ==
    \E i \in 1..(Min(Len(a), Len(b)) + 1) :
        /\ \A j \in 1..(i - 1) : a[j] = b[j]
        /\ \/ i > Len(a) /\ i <= Len(b)
           \/ i <= Len(a) /\ i <= Len(b) /\ Ord(a[i]) < Ord(b[i])

\* sorted(...) on a set of strings
RECURSIVE Sorted(_)
Sorted(S) ==
    IF S = {}
    THEN << >>
    ELSE LET least == CHOOSE a \in S : \A b \in S \ {a} : StrLess(a, b)
         IN  <<least>> \o Sorted(S \ {least})

\* "".join(batch)
RECURSIVE Join(_)
Join(strings) ==
    IF Len(strings) = 0 THEN << >> ELSE Head(strings) \o Join(Tail(strings))

\* self.plots[group_] read on the defaultdict: a missing key is created with
\* an empty list
Touched(fig_plots, group_) ==
    IF group_ \in DOMAIN fig_plots
    THEN fig_plots
    ELSE DictSet(fig_plots, group_, << >>)

\* Figure._set_auto_grid(), lines 409-428, without height, width and
\* ignore_groups: the plots and the grid of the figure after the call and how
\* the call ended.
_set_auto_grid(fig_plots, fig_grid) ==
    LET nb_groups == Cardinality(DOMAIN fig_plots)
        layout == optimal(nb_groups)
        groups == Sorted({k \in DOMAIN fig_plots :
                             k # DEFAULT_GROUP /\ Len(fig_plots[k]) > 0})
        plots1 == Touched(fig_plots, DEFAULT_GROUP)
        groups1 == IF Len(plots1[DEFAULT_GROUP]) > 0
                   THEN Append(groups, DEFAULT_GROUP)
                   ELSE groups
        batches == batch(groups1, layout.width)
        grid_description == [i \in DOMAIN batches |-> Join(batches[i])]
        after == set_grid(fig_grid, List(grid_description))
    IN  IF layout.tag = "raised"
        THEN [plots |-> fig_plots, grid |-> fig_grid, exc |-> layout.exception]
        ELSE [plots |-> plots1, grid |-> after.grid, exc |-> after.exc]

\* a subplot made by plt.subplot2grid, named after the symbol it is made for,
\* "" for the one axis of a figure without grid
Axis(id) == [tag |-> "axis", id |-> id]
SharedAxis == Axis("")

\* the symbols of a grid
GridSymbols(fig_grid) == {fig_grid.grid[i][2] : i \in DOMAIN fig_grid.grid}

\* Figure._render_grid(), lines 473-506: the plots and the grid of the figure
\* after the call, the dict axes and how the call ended.  The palette of the
\* subplots is left out: rpalette.build_cycler_palette(palette, n) as it is
\* called here is not among the sources (helpers/palette.py has a function
\* of one argument), and it has no part in which plot goes where.
_render_grid(fig_plots, fig_grid) ==
    LET auto == IF fig_grid = None
                THEN _set_auto_grid(fig_plots, fig_grid)
                ELSE [plots |-> fig_plots, grid |-> fig_grid, exc |-> "ok"]
    IN  IF auto.exc # "ok"
        THEN [plots |-> auto.plots, grid |-> auto.grid, axes |-> EmptyDict,
              exc |-> auto.exc]
        ELSE IF auto.grid # False
        THEN LET symbols == GridSymbols(auto.grid)
                 keys == {<<symbol>> : symbol \in symbols}
             IN  [plots |-> [k \in DOMAIN auto.plots \cup keys |->
                                IF k \in DOMAIN auto.plots
                                THEN auto.plots[k]
                                ELSE << >>],
                  grid |-> auto.grid,
                  axes |-> [k \in keys \cup {DEFAULT_GROUP} |->
                               IF k \in keys THEN Axis(k[1]) ELSE None],
                  exc |-> "ok"]
        ELSE [plots |-> auto.plots,
              grid |-> auto.grid,
              axes |-> [k \in DOMAIN auto.plots |-> SharedAxis],
              exc |-> "ok"]

\* lines 621-625 where a group that is not in axes is not drawn
AxisOf_own_only(fig_axes, group_) ==
    IF group_ \in DOMAIN fig_axes THEN fig_axes[group_] ELSE None

\* lines 621-625: the axis of the group, that of the default group if it has
\* none
AxisOf(fig_axes, group_) ==
    IF group_ \in DOMAIN fig_axes
    THEN fig_axes[group_]
    ELSE fig_axes[DEFAULT_GROUP]

\* Figure._set_axes_properties(axis, group_) raises for a group without
\* plot: lines 545-548 take max() of an empty list
_set_axes_properties(fig_plots, group_) ==
    IF Len(fig_plots[group_]) = 0 THEN Raised("ValueError") ELSE None

\* Figure._render_no_animation(axes), lines 619-650: the plots drawn on each
\* subplot, each as (group, index in the list of the group), or the
\* exception of a group that has a subplot and no plot
_render_no_animation(fig_plots, fig_axes) ==
    LET shown == {g \in DOMAIN fig_plots : AxisOf(fig_axes, g) # None}
        ids == {AxisOf(fig_axes, g).id : g \in shown}
    IN  IF \E g \in shown : _set_axes_properties(fig_plots, g) # None
        THEN Raised("ValueError")
        ELSE [tag |-> "drawn",
              val |-> [id \in ids |->
                         UNION {{<<g, i>> : i \in DOMAIN fig_plots[g]} :
                                    g \in {h \in shown :
                                              AxisOf(fig_axes, h).id = id}}]]

\* a call of a method with its positional arguments
Call(name, args) == [name |-> name, args |-> args]

\* d.update(other) of Python: the dict d after the call
DictUpdate(d, other) ==
    [k \in DOMAIN d \cup DOMAIN other |->
        IF k \in DOMAIN other THEN other[k] ELSE d[k]]

\* Figure.animate(*args, **kwargs), lines 373-375: Figure.animation after
\* the call
animate(fig_animation, args, kw) ==
    [fig_animation EXCEPT !.type = "gif", !.args = args, !.kwargs = kw]

\* Figure._render_gif_animation(figure, axes), lines 589-609: how the call
\* ends, Figure.animation and the dict DEFAULT_ANIMATION_KWARGS after it.
\* Lines 591-593 use the axis of the default group.  Line 603 binds kwargs to
\* the dict of the module, not to a copy of it, and line 606 updates that
\* object; the animation kept in "persist" is named by the keyword
\* arguments it was made with.
_render_gif_animation(fig_animation, fig_axes, defaults) ==
    IF DEFAULT_GROUP \notin DOMAIN fig_axes
    THEN [exc |-> "KeyError", animation |-> fig_animation,
          defaults |-> defaults]
    ELSE IF fig_axes[DEFAULT_GROUP] = None
    THEN [exc |-> "AttributeError", animation |-> fig_animation,
          defaults |-> defaults]
    ELSE LET updated == DictUpdate(defaults, fig_animation.kwargs)
         IN  [exc |-> "ok",
              animation |-> [fig_animation EXCEPT !.persist = <<updated>>],
              defaults |-> updated]

\* Figure.render(), lines 150-166, from what _render_grid did (line 152) on:
\* the figure after the call, the axes and what is drawn on the figure
\* returned, the dict DEFAULT_ANIMATION_KWARGS of the module, the render
\* calls made and how the call ended.  Figure.animation["type"] is False or,
\* after animate, "gif"; no method sets another type.
render(gridded, fig_animation, defaults) ==
    LET failed(e) ==
            [plots |-> gridded.plots, grid |-> gridded.grid,
             axes |-> EmptyDict, drawn |-> EmptyDict,
             animation |-> fig_animation, defaults |-> defaults,
             calls |-> <<Call("render", << >>)>>, exc |-> e]
        rendered == _render_no_animation(gridded.plots, gridded.axes)
        animated == _render_gif_animation(fig_animation, gridded.axes, defaults)
    IN  IF gridded.exc # "ok"
        THEN failed(gridded.exc)
        ELSE IF fig_animation.type = "False"
        THEN IF rendered.tag = "raised"
             THEN failed(rendered.exception)
             ELSE [plots |-> gridded.plots, grid |-> gridded.grid,
                   axes |-> gridded.axes, drawn |-> rendered.val,
                   animation |-> fig_animation, defaults |-> defaults,
                   calls |-> <<Call("render", << >>)>>, exc |-> "ok"]
        ELSE IF animated.exc # "ok"
        THEN failed(animated.exc)
        ELSE [plots |-> gridded.plots, grid |-> gridded.grid,
              axes |-> gridded.axes,
              drawn |-> [id \in {gridded.axes[DEFAULT_GROUP].id} |-> {}],
              animation |-> animated.animation,
              defaults |-> animated.defaults,
              calls |-> <<Call("render", << >>)>>, exc |-> "ok"]

\* Figure.show(), lines 137-141, from what its call of render did on
show(rendered) ==
    [rendered EXCEPT !.calls =
        <<Call("show", << >>)>> \o @ \o
        (IF rendered.exc = "ok"
         THEN <<Call("figure.show", << >>)>>
         ELSE << >>)]

\* Figure.save() without argument, lines 124-131, from what its call of
\* render did on
save(rendered, fig_savepath) ==
    [rendered EXCEPT !.calls =
        <<Call("save", << >>)>> \o @ \o
        (IF rendered.exc = "ok"
         THEN <<Call("figure.savefig",
                     IF fig_savepath # None THEN <<fig_savepath>> ELSE << >>)>>
         ELSE << >>)]

\* the method that renders the figure
RenderedBy(op, rendered, fig_savepath) ==
    CASE op = "render" -> rendered
      [] op = "show" -> show(rendered)
      [] op = "save" -> save(rendered, fig_savepath)

\* __exit__ that renders whatever the block did
__exit___renders_always(exception_type, fig_savepath) ==
    IF fig_savepath # None THEN "save" ELSE "show"

\* Figure.__exit__(exception_type, exception_value, traceback), lines
\* 101-107: the method it calls, "" for none
__exit__(exception_type, fig_savepath) ==
    IF exception_type = None
    THEN IF fig_savepath # None THEN "save" ELSE "show"
    ELSE ""

FigureUnchanged ==
    UNCHANGED <<grid, plots, legend, axes, drawn,
                savepath, animation, DEFAULT_ANIMATION_KWARGS, calls, call, exc>>

\* a call that renders nothing: it calls neither save, show nor render and
\* leaves the animation and the constants of the module as they are
NoRenderCall ==
    /\ calls' = << >>
    /\ UNCHANGED <<savepath, animation, DEFAULT_ANIMATION_KWARGS>>

-----------------------------------------------------------------------------
(* The parser called on its own *)

\* no call of parse_ascii
ParserIdle == M = << >> /\ parsed = Pending
\* no call of custom_kwargs.parse
KwargsIdle == kwargs_arg = EmptyDict /\ kwargs = EmptyDict /\ parse_ret = Pending
\* no call of edit_plot_command
EditIdle == plot_ = Pending /\ custom_kwargs = EmptyDict /\ edited = Pending
\* no call of the sampler
SamplerIdle ==
    /\ sample_args = Pending
    /\ stack = << >>
    /\ accepted = << >>
    /\ sample_ret = Pending
SamplerUnchanged == UNCHANGED <<sample_args, stack, accepted, sample_ret>>

\* no call of layout.optimal or of tools.batch
ToolsIdle ==
    /\ optimal_arg = 0
    /\ optimal_ret = Pending
    /\ batch_args = [iterable |-> << >>, size |-> 0]
    /\ batch_ret = Pending
ToolsUnchanged == UNCHANGED <<optimal_arg, optimal_ret, batch_args, batch_ret>>

InitParser ==
    /\ M \in RectDescriptions
    /\ parsed = Pending
    /\ KwargsIdle
    /\ EditIdle
    /\ SamplerIdle
    /\ ToolsIdle
    /\ FigureInit

ParseAscii ==
    /\ parsed = Pending
    /\ parsed' = parse_ascii(M)
    /\ UNCHANGED <<M, kwargs_arg, kwargs, parse_ret>>
    /\ UNCHANGED <<plot_, custom_kwargs, edited>>
    /\ SamplerUnchanged
    /\ ToolsUnchanged
    /\ FigureUnchanged

NextParser == ParseAscii

SpecParser == InitParser /\ [][NextParser]_vars

-----------------------------------------------------------------------------
(* Claims on the parser *)

\* the cells (y, x), 0-based, of a description, and those holding a symbol
Cells(M_) == {<<y, x>> : y \in 0..(Len(M_) - 1), x \in 0..(Len(M_[1]) - 1)}
CellsOf(M_, s) == {c \in Cells(M_) : M_[c[1] + 1][c[2] + 1] = s}
SymbolsOf(M_) == {M_[c[1] + 1][c[2] + 1] : c \in Cells(M_)}

\* a set of integers without a gap
IsInterval(S) == \A a \in S : \A b \in S : \A n \in a..b : n \in S

\* a non-empty set of cells that is all of (an interval of rows) x (an
\* interval of columns)
IsRectangle(C) ==
    LET ys == {c[1] : c \in C}
        xs == {c[2] : c \in C}
    IN  /\ C # {}
        /\ IsInterval(ys)
        /\ IsInterval(xs)
        /\ C = ys \X xs

\* the cells of a region ((y, x), symbol, (rowspan, colspan))
RegionCells(r) ==
    {<<r[1][1] + dy, r[1][2] + dx>> :
        dy \in 0..(r[3][1] - 1), dx \in 0..(r[3][2] - 1)}

\* the description has height >= 1 and width >= 1
NonEmptyGrid(M_) == Len(M_) >= 1 /\ Len(M_[1]) >= 1

\* C1: for a rectangular description with height >= 1 and width >= 1,
\* parse_ascii returns a grid, and not None, exactly when the cells of every
\* symbol form one axis-aligned rectangle.
C1_ParsedIffRectangles ==
    (parsed # Pending /\ NonEmptyGrid(M)) =>
        /\ parsed.tag \in {"grid", "None"}
        /\ parsed.tag = "grid" <=>
              \A s \in SymbolsOf(M) : IsRectangle(CellsOf(M, s))

\* C1, its case: ["AB", "BA"] was parsed, and the result is None
C1_Witness ==
    /\ M = << <<"A", "B">>, <<"B", "A">> >>
    /\ parsed = None

\* C2: the regions of a returned grid partition the cells of the description,
\* each region holds its symbol only, no two regions share a symbol, and the
\* width and the height are the length of a row and the number of rows.
C2_RegionsPartition ==
    parsed.tag = "grid" =>
        LET g == parsed.grid
        IN  /\ parsed.height = Len(M)
            /\ parsed.width = Len(M[1])
            /\ \A c \in Cells(M) :
                  Cardinality({i \in DOMAIN g : c \in RegionCells(g[i])}) = 1
            /\ \A i \in DOMAIN g :
                  /\ g[i][3][1] >= 1 /\ g[i][3][2] >= 1
                  /\ RegionCells(g[i]) \subseteq Cells(M)
                  /\ RegionCells(g[i]) \subseteq CellsOf(M, g[i][2])
            /\ \A i \in DOMAIN g : \A j \in DOMAIN g :
                  i # j => /\ g[i][2] # g[j][2]
                           /\ RegionCells(g[i]) \cap RegionCells(g[j]) = {}

\* C2, its case: a grid of several regions, one of them spanning several cells
C2_Witness ==
    /\ parsed.tag = "grid"
    /\ Len(parsed.grid) >= 2
    /\ \E i \in DOMAIN parsed.grid : Cardinality(RegionCells(parsed.grid[i])) >= 2

\* (row, col) a comes strictly before (row, col) b in a row-major scan
RowMajorBefore(a, b) == a[1] < b[1] \/ (a[1] = b[1] /\ a[2] < b[2])

\* C3: the regions are listed in the order of a row-major scan of their
\* origins, and the example of the docstring gives A, B, C, D, E.
C3_RowMajorOrder ==
    parsed.tag = "grid" =>
        /\ \A i \in DOMAIN parsed.grid : \A j \in DOMAIN parsed.grid :
              i < j => RowMajorBefore(parsed.grid[i][1], parsed.grid[j][1])
        /\ M = DocExample =>
              parsed = [tag |-> "grid", width |-> 3, height |-> 3,
                        grid |-> << << <<0, 0>>, "A", <<1, 3>> >>,
                                    << <<1, 0>>, "B", <<1, 2>> >>,
                                    << <<1, 2>>, "C", <<2, 1>> >>,
                                    << <<2, 0>>, "D", <<1, 1>> >>,
                                    << <<2, 1>>, "E", <<1, 1>> >> >>]

-----------------------------------------------------------------------------
(* custom_kwargs.parse called on its own *)

InitKwargs ==
    /\ kwargs_arg \in KwargsInputs
    /\ kwargs = kwargs_arg
    /\ parse_ret = Pending
    /\ ParserIdle
    /\ EditIdle
    /\ SamplerIdle
    /\ ToolsIdle
    /\ FigureInit

Parse ==
    /\ parse_ret = Pending
    /\ parse_ret' = parse(kwargs)
    /\ kwargs' = parse(kwargs).kwargs
    /\ UNCHANGED <<kwargs_arg, M, parsed>>
    /\ UNCHANGED <<plot_, custom_kwargs, edited>>
    /\ SamplerUnchanged
    /\ ToolsUnchanged
    /\ FigureUnchanged

NextKwargs == Parse

SpecKwargs == InitKwargs /\ [][NextKwargs]_vars

\* C10: parse leaves none of the options of replot in the kwargs it returns
\* for matplotlib, keeps every other key there with its value, and gives a
\* value passed as xrange (yrange) under xlim (ylim) in the custom record.
C10_OptionsSplit ==
    parse_ret.tag = "tuple" =>
        /\ DOMAIN parse_ret.kwargs \cap ReplotOptions = {}
        /\ \A k \in DOMAIN kwargs_arg \ ReplotOptions :
              k \in DOMAIN parse_ret.kwargs /\ parse_ret.kwargs[k] = kwargs_arg[k]
        /\ "xrange" \in DOMAIN kwargs_arg =>
              /\ "xlim" \in DOMAIN parse_ret.custom_kwargs
              /\ parse_ret.custom_kwargs["xlim"] = kwargs_arg["xrange"]
        /\ "yrange" \in DOMAIN kwargs_arg =>
              /\ "ylim" \in DOMAIN parse_ret.custom_kwargs
              /\ parse_ret.custom_kwargs["ylim"] = kwargs_arg["yrange"]

\* C11: parse does not modify the dict the caller passed, so that a second
\* call on the same dict object returns (or raises) what the first call did.
C11_ParseLeavesInput ==
    parse_ret # Pending =>
        /\ kwargs = kwargs_arg
        /\ parse(kwargs) = parse_ret

-----------------------------------------------------------------------------
(* edit_plot_command called on its own *)

InitEdit ==
    /\ plot_ \in PlotInputs
    /\ custom_kwargs \in CustomInputs
    /\ edited = Pending
    /\ ParserIdle
    /\ KwargsIdle
    /\ SamplerIdle
    /\ ToolsIdle
    /\ FigureInit

EditPlotCommand ==
    /\ edited = Pending
    /\ edited' = edit_plot_command(plot_, custom_kwargs)
    /\ UNCHANGED <<plot_, custom_kwargs>>
    /\ UNCHANGED <<M, parsed, kwargs_arg, kwargs, parse_ret>>
    /\ SamplerUnchanged
    /\ ToolsUnchanged
    /\ FigureUnchanged

NextEdit == EditPlotCommand

SpecEdit == InitEdit /\ [][NextEdit]_vars

\* the options of the call
Inverting == "invert" \in DOMAIN custom_kwargs /\ custom_kwargs["invert"]
Rotating == "rotate" \in DOMAIN custom_kwargs
RotatingBy(angle) == Rotating /\ custom_kwargs["rotate"] = angle
\* the call was given X and Y
TwoSeries == Len(plot_.args) >= 2
SameLength == TwoSeries /\ Len(plot_.args[1]) = Len(plot_.args[2])

\* C6: with invert true and no rotate the returned command has the given Y
\* as first and the given X as second argument, and the same further
\* arguments, kwargs and custom kwargs; with invert absent or false (and no
\* rotate) the arguments are the given ones.
C6_InvertSwaps ==
    (edited # Pending /\ TwoSeries /\ ~Rotating) =>
        /\ edited.tag = "plot"
        /\ edited.kwargs = plot_.kwargs
        /\ edited.custom_kwargs = custom_kwargs
        /\ Len(edited.args) = Len(plot_.args)
        /\ \A i \in 3..Len(plot_.args) : edited.args[i] = plot_.args[i]
        /\ Inverting => /\ edited.args[1] = plot_.args[2]
                        /\ edited.args[2] = plot_.args[1]
        /\ ~Inverting => /\ edited.args[1] = plot_.args[1]
                         /\ edited.args[2] = plot_.args[2]

\* C6, its case: an inverted command with different X and Y and a third argument
C6_Witness ==
    /\ edited # Pending
    /\ Inverting /\ ~Rotating
    /\ Len(plot_.args) = 3
    /\ plot_.args[1] # plot_.args[2]
    /\ edited.args[1] = plot_.args[2]

\* the point (x, y) turned by a number of quarter turns, clockwise
QuarterTurnX(angle, x, y) ==
    CASE angle = 0 -> x [] angle = 90 -> y [] angle = 180 -> -x [] angle = 270 -> -y
QuarterTurnY(angle, x, y) ==
    CASE angle = 0 -> y [] angle = 90 -> -x [] angle = 180 -> -y [] angle = 270 -> x

\* C7: with rotate and X, Y of the same length (and no inversion), the i-th
\* returned point is the i-th given point (x, y) mapped to
\* (cos(a) x + sin(a) y, -sin(a) x + cos(a) y), as many points as given: the
\* same point for 0 degrees, (y, -x) for 90, (-x, -y) for 180, (-y, x) for 270.
C7_RotateClockwise ==
    (edited # Pending /\ Rotating /\ ~Inverting /\ SameLength) =>
        LET X == plot_.args[1]
            Y == plot_.args[2]
            angle == custom_kwargs["rotate"]
        IN  /\ edited.tag = "plot"
            /\ Len(edited.args) = Len(plot_.args)
            /\ Len(edited.args[1]) = Len(X)
            /\ Len(edited.args[2]) = Len(Y)
            /\ \A i \in 1..Len(X) :
                  /\ edited.args[1][i] = QuarterTurnX(angle, X[i], Y[i])
                  /\ edited.args[2][i] = QuarterTurnY(angle, X[i], Y[i])
            /\ angle = 0 => edited.args[1] = X /\ edited.args[2] = Y
            /\ \A i \in 3..Len(plot_.args) : edited.args[i] = plot_.args[i]

\* C7, its case: the point (2, -1), second of two, turned by 90 degrees to (-1, -2)
C7_Witness ==
    /\ edited # Pending
    /\ RotatingBy(90) /\ ~Inverting /\ SameLength
    /\ Len(plot_.args[1]) = 2
    /\ plot_.args[1][2] = 2 /\ plot_.args[2][2] = -1
    /\ edited.args[1][2] = -1 /\ edited.args[2][2] = -2

\* C8: with invert and rotate the rotation acts on the exchanged series: for
\* 90 degrees every point (x, y) becomes (x, -y), where rotating first and
\* inverting second would give (-x, y), which is another point unless
\* (x, y) = (0, 0).
C8_InvertThenRotate ==
    (edited # Pending /\ Inverting /\ RotatingBy(90) /\ SameLength) =>
        LET X == plot_.args[1]
            Y == plot_.args[2]
            other == RotateThenInvert(
                        PlotCommand(plot_.args, plot_.kwargs, custom_kwargs))
        IN  /\ edited.tag = "plot"
            /\ Len(edited.args[1]) = Len(X)
            /\ Len(edited.args[2]) = Len(Y)
            /\ \A i \in 1..Len(X) :
                  /\ edited.args[1][i] = X[i]
                  /\ edited.args[2][i] = -Y[i]
                  /\ other.args[1][i] = -X[i]
                  /\ other.args[2][i] = Y[i]
                  /\ (X[i] # 0 \/ Y[i] # 0) =>
                        <<edited.args[1][i], edited.args[2][i]>> #
                            <<other.args[1][i], other.args[2][i]>>

\* C8, its case: (2, -1) inverted and turned by 90 degrees is (2, 1)
C8_Witness ==
    /\ edited # Pending
    /\ Inverting /\ RotatingBy(90) /\ SameLength
    /\ Len(plot_.args[1]) >= 1
    /\ plot_.args[1][1] = 2 /\ plot_.args[2][1] = -1
    /\ edited.args[1][1] = 2 /\ edited.args[2][1] = 1

-----------------------------------------------------------------------------
(* Figure.set_grid called with a grid description *)

NoPureCall ==
    ParserIdle /\ KwargsIdle /\ EditIdle /\ SamplerIdle /\ ToolsIdle
PureUnchanged ==
    UNCHANGED <<M, parsed, kwargs_arg, kwargs, parse_ret,
                plot_, custom_kwargs, edited,
                sample_args, stack, accepted, sample_ret,
                optimal_arg, optimal_ret, batch_args, batch_ret>>

\* Figure(grid=...): the constructor takes a grid as parse_ascii returns
\* them, False or None, and checks nothing (lines 65-70 and 90)
ConstructorGrids == {None, False, parse_ascii(<< <<"A", "_">> >>)}

InitGrid ==
    /\ grid \in ConstructorGrids
    /\ plots = EmptyDict
    /\ legend = None
    /\ NotRendered
    /\ NotAnimated
    /\ call = [op |-> "none"]
    /\ exc = "none"
    /\ NoPureCall

\* The call of set_grid on the figure as constructed.  set_grid reads nothing
\* of the figure, so that a later call acts as this one does on a figure
\* constructed with the grid the earlier calls left.
SetGrid ==
    \E grid_description \in GridDescriptions :
        /\ call.op = "none"
        /\ call' = [op |-> "set_grid", grid_description |-> grid_description]
        /\ grid' = set_grid(grid, grid_description).grid
        /\ exc' = set_grid(grid, grid_description).exc
        /\ UNCHANGED <<plots, legend, axes, drawn>>
        /\ PureUnchanged
        /\ NoRenderCall

NextGrid == SetGrid

SpecGrid == InitGrid /\ [][NextGrid]_vars

\* the last call was set_grid with a list of rows or with one string
SetGridRows ==
    /\ call.op = "set_grid"
    /\ call.grid_description.tag \in {"str", "list"}
\* the rows given
GivenRows == Enclosed(call.grid_description).val

\* C4: set_grid with an empty description, no row or empty rows only, raises
\* InvalidParameterError and the grid of the figure is no grid of width 0.
C4_EmptyGridRejected ==
    (SetGridRows /\ \A i \in DOMAIN GivenRows : Len(GivenRows[i]) = 0) =>
        /\ exc = "InvalidParameterError"
        /\ ~(grid.tag = "grid" /\ grid.width = 0)

\* C5: set_grid with a description of at least one row raises
\* InvalidParameterError when the rows differ in length and when the cells
\* of some symbol are not one rectangle (the parser returns None);
\* otherwise the call succeeds and the grid of the figure is the parsed grid.
C5_SetGridRaisesOrStores ==
    (SetGridRows /\ Len(GivenRows) >= 1) =>
        IF IsRagged(GivenRows)
        THEN exc = "InvalidParameterError"
        ELSE IF \E s \in SymbolsOf(GivenRows) : ~IsRectangle(CellsOf(GivenRows, s))
        THEN exc = "InvalidParameterError"
        ELSE /\ exc = "ok"
             /\ grid.tag = "grid"
             /\ grid = parse_ascii(GivenRows)

\* C5, its case: a figure with a grid on which set_grid(["A_", "_A"]) raised
C5_Witness ==
    /\ call = [op |-> "set_grid",
               grid_description |-> List(<< <<"A", "_">>, <<"_", "A">> >>)]
    /\ exc = "InvalidParameterError"
    /\ grid.tag = "grid"
    /\ Len(grid.grid) = 2

-----------------------------------------------------------------------------
(* Figure.plot called with series of points *)

InitPlot ==
    /\ FigureInit
    /\ NoPureCall

Plot ==
    \E args \in FigArgs : \E kw \in FigKwargs :
        /\ NbPlots < MaxPlots
        /\ call' = [op |-> "plot", args |-> args, kwargs |-> kw]
        /\ \E after \in {plot(plots, legend, args, kw)} :
              /\ plots' = after.plots
              /\ legend' = after.legend
              /\ exc' = after.exc
        /\ UNCHANGED <<grid, axes, drawn>>
        /\ PureUnchanged
        /\ NoRenderCall

NextPlot == Plot

SpecPlot == InitPlot /\ [][NextPlot]_vars

\* the group given is the reserved "_" or is longer than one character
BadGroup(kw) ==
    /\ "group" \in DOMAIN kw
    /\ kw["group"] = <<"_">> \/ Len(kw["group"]) >= 2

\* C9: a call of plot whose group is "_" or longer than one character raises
\* InvalidParameterError and leaves the plots, the legend and the grid of the
\* figure as they were.
C9_BadGroupFailsFast ==
    [][(call'.op = "plot" /\ BadGroup(call'.kwargs)) =>
           /\ exc' = "InvalidParameterError"
           /\ plots' = plots
           /\ legend' = legend
           /\ grid' = grid]_vars

\* C9, its case: a labelled plot of the group "AB" refused by a figure that
\* has a plot and no legend
C9_Witness ==
    /\ call.op = "plot"
    /\ Len(call.args) = 2
    /\ DOMAIN call.kwargs = {"group", "label"}
    /\ call.kwargs["group"] = <<"A", "B">>
    /\ exc = "InvalidParameterError"
    /\ NbPlots = 1
    /\ legend = None

-----------------------------------------------------------------------------
(* The sampler called on its own, one step of its work stack at a time *)

\* the call is running and has built the abscissas xs of its polyline
Running(xs) == [tag |-> "running", x_values |-> xs]
IsRunning == sample_ret.tag = "running"
\* the state of the running call
SamplerState ==
    [stack |-> stack, accepted |-> accepted, x_values |-> sample_ret.x_values]

InitSampler ==
    /\ sample_args \in SamplerInputs
    /\ stack = << >>
    /\ accepted = << >>
    /\ sample_ret = Pending
    /\ ParserIdle
    /\ KwargsIdle
    /\ EditIdle
    /\ ToolsIdle
    /\ FigureInit

SamplerRest ==
    /\ UNCHANGED <<M, parsed, kwargs_arg, kwargs, parse_ret>>
    /\ UNCHANGED <<plot_, custom_kwargs, edited>>
    /\ ToolsUnchanged
    /\ FigureUnchanged

\* the call with lo >= hi
RejectInterval ==
    /\ sample_ret = Pending
    /\ sample_args.interval[1] >= sample_args.interval[2]
    /\ sample_ret' = sample_function(sample_args.f, sample_args.interval,
                                     sample_args.tol)
    /\ UNCHANGED <<sample_args, stack, accepted>>
    /\ SamplerRest

\* the call with lo < hi
StartSampling ==
    /\ sample_ret = Pending
    /\ sample_args.interval[1] < sample_args.interval[2]
    /\ sample_ret' = Running(<< >>)
    /\ stack' = InitialStack(sample_args.interval)
    /\ UNCHANGED <<sample_args, accepted>>
    /\ SamplerRest

\* step 3 on the triple on top of the stack
Subdivide ==
    /\ IsRunning
    /\ stack # << >>
    /\ Subdivides(sample_args.f, Head(stack), sample_args.tol)
    /\ stack' = SamplerStep(sample_args.f, sample_args.tol, SamplerState).stack
    /\ UNCHANGED <<sample_args, accepted, sample_ret>>
    /\ SamplerRest

\* step 4 on the triple on top of the stack
Accept ==
    /\ IsRunning
    /\ stack # << >>
    /\ ~Subdivides(sample_args.f, Head(stack), sample_args.tol)
    /\ stack' = SamplerStep(sample_args.f, sample_args.tol, SamplerState).stack
    /\ accepted' =
           SamplerStep(sample_args.f, sample_args.tol, SamplerState).accepted
    /\ sample_ret' =
           Running(SamplerStep(sample_args.f, sample_args.tol,
                               SamplerState).x_values)
    /\ UNCHANGED sample_args
    /\ SamplerRest

\* the stack is empty: the polyline is returned
Return ==
    /\ IsRunning
    /\ stack = << >>
    /\ sample_ret' = Polyline(sample_args.f, sample_ret.x_values)
    /\ UNCHANGED <<sample_args, stack, accepted>>
    /\ SamplerRest

NextSampler ==
    \/ RejectInterval
    \/ StartSampling
    \/ Subdivide
    \/ Accept
    \/ Return

SpecSampler == InitSampler /\ [][NextSampler]_vars

\* the sampler is a sequential computation: it takes its next step
SpecSamplerFair == SpecSampler /\ WF_vars(NextSampler)

Returned == sample_ret.tag = "tuple"
Lo == sample_args.interval[1]
Hi == sample_args.interval[2]

\* C12: for lo < hi the polyline returned has strictly increasing x-values,
\* the first of which is lo and the last of which is hi.
C12_PolylineIncreasing ==
    Returned =>
        LET xs == sample_ret.x_values
        IN  /\ Len(xs) >= 2
            /\ xs[1] = Lo
            /\ xs[Len(xs)] = Hi
            /\ \A i \in 1..(Len(xs) - 1) : xs[i] < xs[i + 1]

\* C12, its case: a polyline returned after subdivisions, whose sub-intervals
\* share their midpoints
C12_Witness ==
    /\ Returned
    /\ Len(accepted) = 2 ^ max_depth
    /\ Len(sample_ret.x_values) = 2 ^ (max_depth + 1) + 1

\* C13: the sampler terminates: no triple on the stack or accepted is deeper
\* than max_depth, there are at most 2^max_depth accepted segments, and the
\* call returns or raises in the end.
C13_Terminates ==
    /\ [](\A i \in DOMAIN stack : stack[i][3] <= max_depth)
    /\ [](\A i \in DOMAIN accepted : accepted[i][3] <= max_depth)
    /\ [](Len(accepted) <= 2 ^ max_depth)
    /\ <>(sample_ret.tag \in {"tuple", "raised"})

\* C13, its case: a function whose midpoint error is above the tolerance on
\* every sub-interval (x^2 at tolerance 0), returned with 2^max_depth segments
C13_Witness ==
    /\ Returned
    /\ sample_args.f = "square"
    /\ sample_args.tol = 0
    /\ Len(accepted) = 2 ^ max_depth
    /\ \A i \in DOMAIN accepted : accepted[i][3] = max_depth

\* the midpoint error of the segment [a, b] is at most tol
WithinTolerance(f, a, b, tol) ==
    /\ Eval(f, a).tag = "finite"
    /\ Eval(f, b).tag = "finite"
    /\ Eval(f, (a + b) \div 2).tag = "finite"
    /\ Abs(2 * Eval(f, (a + b) \div 2).val - Eval(f, a).val - Eval(f, b).val)
           <= 2 * tol

\* C14: every accepted segment [a, b] has a midpoint error of at most tol or
\* was accepted at depth max_depth.
C14_AcceptedWithinTolerance ==
    \A i \in DOMAIN accepted :
        \/ WithinTolerance(sample_args.f, accepted[i][1], accepted[i][2],
                           sample_args.tol)
        \/ accepted[i][3] = max_depth

\* C14, its case: segments accepted below max_depth within the tolerance and
\* segments accepted at max_depth above it, in one call
C14_Witness ==
    /\ Returned
    /\ \E i \in DOMAIN accepted :
          /\ accepted[i][3] < max_depth
          /\ WithinTolerance(sample_args.f, accepted[i][1], accepted[i][2],
                             sample_args.tol)
    /\ \E i \in DOMAIN accepted :
          /\ accepted[i][3] = max_depth
          /\ ~WithinTolerance(sample_args.f, accepted[i][1], accepted[i][2],
                              sample_args.tol)

IsLinear(f) == f = "linear"

\* C15: for a linear function there is no subdivision at any tolerance: the
\* one accepted segment is [lo, hi] and the polyline is lo, (lo + hi) / 2, hi.
C15_LinearNotSubdivided ==
    IsLinear(sample_args.f) =>
        /\ \A i \in DOMAIN stack : stack[i][3] = 0
        /\ \A i \in DOMAIN accepted : accepted[i] = <<Lo, Hi, 0>>
        /\ Returned =>
              /\ Len(accepted) = 1
              /\ sample_ret.x_values = <<Lo, (Lo + Hi) \div 2, Hi>>

\* C15, its case: 3x + 1 sampled at tolerance 0
C15_Witness ==
    /\ Returned
    /\ IsLinear(sample_args.f)
    /\ sample_args.tol = 0
    /\ Lo = -Unit /\ Hi = Unit

-----------------------------------------------------------------------------
(* Figure.plot called with a function *)

PlotFunction ==
    \E args \in FunctionArgs : \E kw \in FigKwargs :
        /\ NbPlots < MaxPlots
        /\ call' = [op |-> "plot", args |-> args, kwargs |-> kw]
        /\ \E after \in {plot(plots, legend, args, kw)} :
              /\ plots' = after.plots
              /\ legend' = after.legend
              /\ exc' = after.exc
        /\ UNCHANGED <<grid, axes, drawn>>
        /\ PureUnchanged
        /\ NoRenderCall

NextPlotFunction == PlotFunction

SpecPlotFunction == InitPlot /\ [][NextPlotFunction]_vars

\* the arguments are a function and the tuple of an interval with lo >= hi
OverInvalidInterval(args) ==
    /\ Len(args) >= 2
    /\ args[1].tag = "function"
    /\ args[2].tag = "tuple"
    /\ args[2].val[1] >= args[2].val[2]

-----------------------------------------------------------------------------
(* Figures that are given plots and grids and are rendered *)

\* the groups of the plots: A, B, the empty string and no group
RenderKwargs ==
    {EmptyDict} \cup
    {DictSet(EmptyDict, "group", g) : g \in {<<"A">>, <<"B">>, << >>}}

\* the grids: none, one row or one column, with and without the default group
RenderGrids ==
    {False, Str(<<"A", "_">>), Str(<<"A", "B">>),
     List(<< <<"B">>, <<"_">> >>)}

PlotInGroup ==
    \E kw \in RenderKwargs :
        /\ GroupOf(kw) \in DOMAIN plots => Len(plots[GroupOf(kw)]) < MaxPerGroup
        /\ call' = [op |-> "plot", args |-> <<Numbers(<<0, 2>>)>>, kwargs |-> kw]
        /\ \E after \in {plot(plots, legend, <<Numbers(<<0, 2>>)>>, kw)} :
              /\ plots' = after.plots
              /\ legend' = after.legend
              /\ exc' = after.exc
        /\ axes' = EmptyDict
        /\ drawn' = EmptyDict
        /\ UNCHANGED grid
        /\ PureUnchanged
        /\ NoRenderCall

SetGridTo ==
    \E grid_description \in RenderGrids :
        /\ call' = [op |-> "set_grid", grid_description |-> grid_description]
        /\ grid' = set_grid(grid, grid_description).grid
        /\ exc' = set_grid(grid, grid_description).exc
        /\ axes' = EmptyDict
        /\ drawn' = EmptyDict
        /\ UNCHANGED <<plots, legend>>
        /\ PureUnchanged
        /\ NoRenderCall

\* set_grid(auto=True), lines 209-213
SetGridAuto ==
    /\ call' = [op |-> "set_grid", auto |-> TRUE]
    /\ \E after \in {_set_auto_grid(plots, grid)} :
          /\ plots' = after.plots
          /\ grid' = after.grid
          /\ exc' = after.exc
    /\ axes' = EmptyDict
    /\ drawn' = EmptyDict
    /\ UNCHANGED legend
    /\ PureUnchanged
    /\ NoRenderCall

RenderOps == {"render", "show", "save"}

Render ==
    \E op \in RenderOps :
        /\ call' = [op |-> op]
        /\ \E gridded \in {_render_grid(plots, grid)} :
           \E rendered \in {render(gridded, animation, DEFAULT_ANIMATION_KWARGS)} :
           \E after \in {RenderedBy(op, rendered, savepath)} :
              /\ plots' = after.plots
              /\ grid' = after.grid
              /\ axes' = after.axes
              /\ drawn' = after.drawn
              /\ animation' = after.animation
              /\ DEFAULT_ANIMATION_KWARGS' = after.defaults
              /\ calls' = after.calls
              /\ exc' = after.exc
        /\ UNCHANGED <<legend, savepath>>
        /\ PureUnchanged

NextRender ==
    \/ PlotInGroup
    \/ SetGridTo
    \/ SetGridAuto
    \/ Render

SpecRender == InitPlot /\ [][NextRender]_vars

IsGrid(fig_grid) == fig_grid.tag = "grid"
HasPlots(group_) == group_ \in DOMAIN plots /\ Len(plots[group_]) > 0
AfterRender == call.op \in RenderOps

\* C17: rendering a figure whose grid has a symbol of a group without plot
\* ends without exception and nothing is drawn on the subplot of the symbol.
C17_EmptyGroupRenders ==
    (AfterRender /\ IsGrid(grid)) =>
        \A symbol \in GridSymbols(grid) :
            ~HasPlots(<<symbol>>) =>
                /\ exc = "ok"
                /\ symbol \in DOMAIN drawn => drawn[symbol] = {}

\* where the plot i of the group is drawn
DrawnOn(group_, i) == {id \in DOMAIN drawn : <<group_, i>> \in drawn[id]}

\* the subplot the group belongs on with the grid
Destination(group_, fig_grid) ==
    IF fig_grid = False
    THEN {SharedAxis.id}
    ELSE IF Len(group_) = 1 /\ group_[1] \in GridSymbols(fig_grid)
    THEN {group_[1]}
    ELSE IF "_" \in GridSymbols(fig_grid)
    THEN {"_"}
    ELSE {}

\* C18: after a render that returned, each plot of each group is drawn on the
\* subplot of the group if its symbol is in the grid, else on the subplot of
\* the default group if "_" is in the grid, else nowhere; without grid
\* (False) each plot is drawn on the one shared axis.
C18_GroupsDrawnOnSubplots ==
    (AfterRender /\ exc = "ok") =>
        \A group_ \in DOMAIN plots : \A i \in DOMAIN plots[group_] :
            DrawnOn(group_, i) = Destination(group_, grid)

\* C18, its case: with the grid "A_" and plots in A, in B and in no group,
\* those of B are on the subplot of the default group
C18_Witness ==
    /\ AfterRender /\ exc = "ok"
    /\ IsGrid(grid) /\ GridSymbols(grid) = {"A", "_"}
    /\ HasPlots(<<"A">>) /\ HasPlots(<<"B">>) /\ HasPlots(DEFAULT_GROUP)
    /\ DrawnOn(<<"B">>, 1) = {"_"}
    /\ DrawnOn(<<"A">>, 1) = {"A"}

-----------------------------------------------------------------------------
(* Figures whose grid is set automatically *)

\* the groups of the plots: A, B, C, D and no group
AutoKwargs ==
    {EmptyDict} \cup
    {DictSet(EmptyDict, "group", <<symbol>>) : symbol \in {"A", "B", "C", "D"}}

PlotInAutoGroup ==
    \E kw \in AutoKwargs :
        /\ GroupOf(kw) \in DOMAIN plots => Len(plots[GroupOf(kw)]) < MaxPerGroup
        /\ call' = [op |-> "plot", args |-> <<Numbers(<<0, 2>>)>>, kwargs |-> kw]
        /\ \E after \in {plot(plots, legend, <<Numbers(<<0, 2>>)>>, kw)} :
              /\ plots' = after.plots
              /\ legend' = after.legend
              /\ exc' = after.exc
        /\ axes' = EmptyDict
        /\ drawn' = EmptyDict
        /\ UNCHANGED grid
        /\ PureUnchanged
        /\ NoRenderCall

NextAutoGrid ==
    \/ PlotInAutoGroup
    \/ SetGridAuto
    \/ Render

SpecAutoGrid == InitPlot /\ [][NextAutoGrid]_vars

\* the groups of the figure that have a plot
GroupsWithPlots == {g \in DOMAIN plots : Len(plots[g]) > 0}

\* the order of the symbols: by code point, "_" last
SymbolBefore(a, b) ==
    \/ a # "_" /\ b = "_"
    \/ a # "_" /\ b # "_" /\ Ord(a) < Ord(b)

\* the grid has one region for each of the groups and no other, and read row
\* by row its regions are in the order of the symbols
OneRegionPerGroup(fig_grid, groups) ==
    /\ IsGrid(fig_grid)
    /\ Len(fig_grid.grid) = Cardinality(groups)
    /\ {<<symbol>> : symbol \in GridSymbols(fig_grid)} = groups
    /\ \A i \in DOMAIN fig_grid.grid : \A j \in DOMAIN fig_grid.grid :
          SymbolBefore(fig_grid.grid[i][2], fig_grid.grid[j][2]) =>
              RowMajorBefore(fig_grid.grid[i][1], fig_grid.grid[j][1])

\* the step sets the grid automatically: set_grid(auto=True), or a render of
\* a figure whose grid is None
AutoGridStep ==
    \/ call'.op = "set_grid" /\ "auto" \in DOMAIN call'
    \/ call'.op \in RenderOps /\ grid = None

\* C19: on a figure with plots in n >= 1 groups, setting the grid
\* automatically succeeds and gives a grid with exactly one region for each
\* group that has a plot, in lexicographic order of the symbols, "_" last.
C19_AutoGridPerGroup ==
    [][(AutoGridStep /\ GroupsWithPlots # {}) =>
           /\ exc' = "ok"
           /\ OneRegionPerGroup(grid', GroupsWithPlots)]_vars

-----------------------------------------------------------------------------
(* Figures constructed with a legend, then given plots *)

\* the legend given to the constructor: None, False, a position string or
\* a dict from groups to positions
ConstructorLegends ==
    {None, False,
     [tag |-> "str", val |-> <<"b", "e", "s", "t">>],
     [tag |-> "dict", val |-> DictSet(EmptyDict, <<"A">>, <<"b", "e", "s", "t">>)]}

InitLegend ==
    /\ grid = None
    /\ plots = EmptyDict
    /\ legend \in ConstructorLegends
    /\ NotRendered
    /\ NotAnimated
    /\ call = [op |-> "none"]
    /\ exc = "none"
    /\ NoPureCall

\* the calls of plot: with and without label, in a group, in no group and
\* in a group that is refused
LegendKwargs ==
    {d \in FigKwargs :
        "group" \in DOMAIN d => d["group"] \in {<<"A">>, <<"_">>}}

PlotLabelled ==
    \E args \in {<< >>, <<Numbers(<<0, 2>>)>>} : \E kw \in LegendKwargs :
        /\ NbPlots < MaxPlots
        /\ call' = [op |-> "plot", args |-> args, kwargs |-> kw]
        /\ \E after \in {plot(plots, legend, args, kw)} :
              /\ plots' = after.plots
              /\ legend' = after.legend
              /\ exc' = after.exc
        /\ UNCHANGED <<grid, axes, drawn>>
        /\ PureUnchanged
        /\ NoRenderCall

NextLegend == PlotLabelled

SpecLegend == InitLegend /\ [][NextLegend]_vars

\* C20: over the calls of plot the legend changes only from None to True, and
\* only on a call with a label that added its plot: a legend that is False,
\* a position or a dict stays what it is, and a legend that is None stays
\* None as long as no labelled plot is added.
C20_LegendOnlyNoneToTrue ==
    [][legend' # legend =>
           /\ legend = None
           /\ legend' = [tag |-> "True"]
           /\ call'.op = "plot"
           /\ "label" \in DOMAIN call'.kwargs
           /\ exc' = "ok"
           /\ NbPlotsOf(plots', DOMAIN plots') = NbPlots + 1]_vars

\* C20, its case: the legend is True, which no constructor of these figures
\* was given, after a plot with a label was added
C20_Witness ==
    /\ legend = [tag |-> "True"]
    /\ call.op = "plot"
    /\ "label" \in DOMAIN call.kwargs
    /\ exc = "ok"
    /\ NbPlots >= 1

-----------------------------------------------------------------------------
(* Figures used in with statements *)

\* the savepath given to the constructor: none or a path
ConstructorSavepaths == {None, Str(<<"f">>)}

InitExit ==
    /\ grid = None
    /\ plots = EmptyDict
    /\ legend = None
    /\ NotRendered
    /\ savepath \in ConstructorSavepaths
    /\ animation = NoAnimation
    /\ DEFAULT_ANIMATION_KWARGS = DefaultAnimationKwargs
    /\ calls = << >>
    /\ call = [op |-> "none"]
    /\ exc = "none"
    /\ NoPureCall

\* how the block of the with statement ended: without exception, or with one
ExceptionTypes == {None, [tag |-> "type", name |-> "KeyError"]}

\* the end of a with statement on the figure: __exit__ returns None, so that
\* an exception of the block goes on to the caller
Exit ==
    \E exception_type \in ExceptionTypes :
        /\ call' = [op |-> "__exit__", exception_type |-> exception_type]
        /\ \E op \in {__exit__(exception_type, savepath)} :
              IF op = ""
              THEN /\ calls' = << >>
                   /\ exc' = exception_type.name
                   /\ UNCHANGED <<plots, grid, axes, drawn, animation,
                                  DEFAULT_ANIMATION_KWARGS>>
              ELSE \E gridded \in {_render_grid(plots, grid)} :
                   \E rendered \in
                        {render(gridded, animation, DEFAULT_ANIMATION_KWARGS)} :
                   \E after \in {RenderedBy(op, rendered, savepath)} :
                      /\ plots' = after.plots
                      /\ grid' = after.grid
                      /\ axes' = after.axes
                      /\ drawn' = after.drawn
                      /\ animation' = after.animation
                      /\ DEFAULT_ANIMATION_KWARGS' = after.defaults
                      /\ calls' = after.calls
                      /\ exc' = after.exc
        /\ UNCHANGED <<legend, savepath>>
        /\ PureUnchanged

NextExit ==
    \/ PlotInGroup
    \/ SetGridTo
    \/ Exit

SpecExit == InitExit /\ [][NextExit]_vars

\* the calls of the method of that name among the calls made
CallsOf(name) == {i \in DOMAIN calls : calls[i].name = name}

\* C21: at the end of a with statement the figure is rendered, once, if and
\* only if the block raised no exception; it is then rendered by save() when
\* the figure has a savepath, which is the path the figure is saved to, and
\* by show() when it has none, and after a block that raised neither save
\* nor show nor render is called.
C21_ExitRendersOnce ==
    call.op = "__exit__" =>
        IF call.exception_type = None
        THEN /\ Cardinality(CallsOf("render")) = 1
             /\ IF savepath # None
                THEN /\ Cardinality(CallsOf("save")) = 1
                     /\ CallsOf("show") = {}
                     /\ \A i \in CallsOf("figure.savefig") :
                           calls[i].args = <<savepath>>
                     /\ exc = "ok" => CallsOf("figure.savefig") # {}
                ELSE /\ Cardinality(CallsOf("show")) = 1
                     /\ CallsOf("save") = {}
        ELSE /\ CallsOf("render") = {}
             /\ CallsOf("save") = {}
             /\ CallsOf("show") = {}

\* C21, its case: a with statement on a figure with a savepath ended without
\* exception, and the figure was rendered and saved to the savepath
C21_Witness ==
    /\ call.op = "__exit__"
    /\ call.exception_type = None
    /\ savepath # None
    /\ exc = "ok"
    /\ calls = <<Call("save", << >>), Call("render", << >>),
                 Call("figure.savefig", <<savepath>>)>>

-----------------------------------------------------------------------------
(* The frames of the plots of a figure *)

\* the number of plots of the group on a figure
LenOf(fig_plots, group_) ==
    IF group_ \in DOMAIN fig_plots THEN Len(fig_plots[group_]) ELSE 0

\* C22: the plots added by calls of plot without the option frame get the
\* frames 0, 1, 2, ... in the order of the calls: on a figure all of whose
\* plots were added without frame, the call that adds plot number k,
\* counted from 0, stores it with the custom option frame = k.
C22_FramesIncrease ==
    [][(/\ call'.op = "plot"
        /\ exc' = "ok"
        /\ "frame" \notin DOMAIN call'.kwargs) =>
           \E group_ \in DOMAIN plots' :
               /\ Len(plots'[group_]) = LenOf(plots, group_) + 1
               /\ plots'[group_][Len(plots'[group_])].custom_kwargs["frame"]
                      = NbPlots]_vars

-----------------------------------------------------------------------------
(* Animated figures *)

\* the keyword arguments given to animate: none, one that overrides a
\* default, one that does and one that is new
AnimateKwargs ==
    {EmptyDict,
     [frames |-> 10],
     [interval |-> 5, repeat |-> FALSE]}

\* Figure.animate(**kwargs)
Animate ==
    \E kw \in AnimateKwargs :
        /\ call' = [op |-> "animate", args |-> << >>, kwargs |-> kw]
        /\ animation' = animate(animation, << >>, kw)
        /\ exc' = "ok"
        /\ calls' = << >>
        /\ UNCHANGED <<grid, plots, legend, axes, drawn, savepath,
                       DEFAULT_ANIMATION_KWARGS>>
        /\ PureUnchanged

\* Figure(): another figure is constructed in the same interpreter, where
\* the module replot.constants is what the renders before left
NewFigure ==
    /\ call' = [op |-> "__init__"]
    /\ grid' = None
    /\ plots' = EmptyDict
    /\ legend' = None
    /\ axes' = EmptyDict
    /\ drawn' = EmptyDict
    /\ savepath' = None
    /\ animation' = NoAnimation
    /\ calls' = << >>
    /\ exc' = "ok"
    /\ UNCHANGED DEFAULT_ANIMATION_KWARGS
    /\ PureUnchanged

NextAnimate ==
    \/ PlotInGroup
    \/ Animate
    \/ Render
    \/ NewFigure

SpecAnimate == InitPlot /\ [][NextAnimate]_vars

\* C26: the dict DEFAULT_ANIMATION_KWARGS of replot.constants is
\* {frames: 200, interval: 20, blit: True} in every reachable state, whatever
\* keyword arguments animate was given on the figures rendered before.
C26_DefaultsKept == DEFAULT_ANIMATION_KWARGS = DefaultAnimationKwargs

-----------------------------------------------------------------------------
(* The spans of the regions parse_ascii records *)

\* the number of consecutive cells that hold the symbol of the cell (y, x),
\* from that cell to the right in its row: counting stops at the first cell
\* that holds another symbol, or at the end of the row
RunRight(M_, y, x) ==
    CHOOSE n \in 1..(Len(M_[y + 1]) - x) :
        /\ \A t \in 0..(n - 1) : M_[y + 1][x + t + 1] = M_[y + 1][x + 1]
        /\ \/ x + n = Len(M_[y + 1])
           \/ M_[y + 1][x + n + 1] # M_[y + 1][x + 1]

\* the same from the cell down in its column
RunDown(M_, y, x) ==
    CHOOSE n \in 1..(Len(M_) - y) :
        /\ \A t \in 0..(n - 1) : M_[y + t + 1][x + 1] = M_[y + 1][x + 1]
        /\ \/ y + n = Len(M_)
           \/ M_[y + n + 1][x + 1] # M_[y + 1][x + 1]

\* C23: for every region ((y, x), symbol, (rowspan, colspan)) of a grid
\* parse_ascii returned, colspan is the number of consecutive cells equal to
\* the symbol from the origin to the right in its row, and rowspan the
\* number of consecutive cells equal to the symbol from the origin down in
\* its column.
C23_SpansAreRuns ==
    (parsed # Pending /\ parsed.tag = "grid") =>
        \A i \in DOMAIN parsed.grid :
            /\ parsed.grid[i][3][2] =
                   RunRight(M, parsed.grid[i][1][1], parsed.grid[i][1][2])
            /\ parsed.grid[i][3][1] =
                   RunDown(M, parsed.grid[i][1][1], parsed.grid[i][1][2])

\* C23, its case: a grid was returned with a region of two columns or more
\* that ends before the end of its row, at a cell of another symbol, and a
\* region of two rows or more
C23_Witness ==
    /\ parsed # Pending
    /\ parsed.tag = "grid"
    /\ \E i \in DOMAIN parsed.grid :
          /\ parsed.grid[i][3][2] >= 2
          /\ parsed.grid[i][1][2] + parsed.grid[i][3][2] < parsed.width
    /\ \E i \in DOMAIN parsed.grid : parsed.grid[i][3][1] >= 2

-----------------------------------------------------------------------------
(* replot/grid/layout.py: optimal *)

InitLayout ==
    /\ optimal_arg \in 0..MaxItems
    /\ optimal_ret = Pending
    /\ batch_args = [iterable |-> << >>, size |-> 0]
    /\ batch_ret = Pending
    /\ ParserIdle
    /\ KwargsIdle
    /\ EditIdle
    /\ SamplerIdle
    /\ FigureInit

Optimal ==
    /\ optimal_ret = Pending
    /\ optimal_ret' = optimal(optimal_arg)
    /\ UNCHANGED <<optimal_arg, batch_args, batch_ret>>
    /\ UNCHANGED <<M, parsed, kwargs_arg, kwargs, parse_ret>>
    /\ UNCHANGED <<plot_, custom_kwargs, edited>>
    /\ SamplerUnchanged
    /\ FigureUnchanged

NextLayout == Optimal

SpecLayout == InitLayout /\ [][NextLayout]_vars

\* the two candidates of the claim, as (height, width)
FirstCandidate(n) ==
    <<FloorSqrt(n), CeilDiv(n, FloorSqrt(n))>>
SecondCandidate(n) ==
    <<CeilDiv(n, CeilSqrt(n)), CeilSqrt(n)>>
Area(candidate) == candidate[1] * candidate[2]

\* C24: for n >= 1 optimal(n) returns a pair (height, width) of integers
\* >= 1 with height * width >= n: the one of smaller area among
\* (floor(sqrt n), ceil(n / floor(sqrt n))) and
\* (ceil(n / ceil(sqrt n)), ceil(sqrt n)), the second when the areas are
\* equal; it returns (1, 2) for 2, (1, 3) for 3 and (2, 2) for 4.
C24_OptimalLayout ==
    (optimal_ret # Pending /\ optimal_arg >= 1) =>
        /\ optimal_ret.tag = "tuple"
        /\ optimal_ret.height \in Nat \ {0}
        /\ optimal_ret.width \in Nat \ {0}
        /\ optimal_ret.height * optimal_ret.width >= optimal_arg
        /\ <<optimal_ret.height, optimal_ret.width>> =
               IF Area(FirstCandidate(optimal_arg))
                      < Area(SecondCandidate(optimal_arg))
               THEN FirstCandidate(optimal_arg)
               ELSE SecondCandidate(optimal_arg)
        /\ optimal_arg = 2 => <<optimal_ret.height, optimal_ret.width>> = <<1, 2>>
        /\ optimal_arg = 3 => <<optimal_ret.height, optimal_ret.width>> = <<1, 3>>
        /\ optimal_arg = 4 => <<optimal_ret.height, optimal_ret.width>> = <<2, 2>>

\* C24, its case: optimal returned for a number of items for which the two
\* candidates differ in area, and the first was chosen
C24_Witness ==
    /\ optimal_ret # Pending
    /\ optimal_arg >= 1
    /\ Area(FirstCandidate(optimal_arg)) < Area(SecondCandidate(optimal_arg))
    /\ <<optimal_ret.height, optimal_ret.width>> = FirstCandidate(optimal_arg)

-----------------------------------------------------------------------------
(* replot/tools.py: batch *)

\* the iterables: the lists of at most MaxBatched items, and the list of the
\* example of the docstring
BatchIterables == SeqsOf({1, 2}, 0, MaxBatched) \cup {<<1, 2, 3, 4, 5>>}

InitBatch ==
    /\ batch_args \in [iterable : BatchIterables, size : 0..MaxSize]
    /\ batch_ret = Pending
    /\ optimal_arg = 0
    /\ optimal_ret = Pending
    /\ ParserIdle
    /\ KwargsIdle
    /\ EditIdle
    /\ SamplerIdle
    /\ FigureInit

\* [list(i) for i in batch(iterable, size)]: each batch is exhausted before
\* the next is asked for
Batch ==
    /\ batch_ret = Pending
    /\ batch_ret' = [tag |-> "list", val |-> batch(batch_args.iterable, batch_args.size)]
    /\ UNCHANGED <<batch_args, optimal_arg, optimal_ret>>
    /\ UNCHANGED <<M, parsed, kwargs_arg, kwargs, parse_ret>>
    /\ UNCHANGED <<plot_, custom_kwargs, edited>>
    /\ SamplerUnchanged
    /\ FigureUnchanged

NextBatch == Batch

SpecBatch == InitBatch /\ [][NextBatch]_vars

\* the lists of a list one after the other
RECURSIVE Flattened(_)
Flattened(lists) ==
    IF Len(lists) = 0 THEN << >> ELSE Head(lists) \o Flattened(Tail(lists))

\* C25: with size >= 1 the batches of batch(iterable, size), each exhausted
\* before the next is asked for, are the items of the iterable in order:
\* every batch but the last has size items, the last has from 1 to size
\* items, and an empty iterable gives no batch; [1, 2, 3, 4, 5] by 2 gives
\* [1, 2], [3, 4], [5].
C25_BatchesSplitInput ==
    (batch_ret # Pending /\ batch_args.size >= 1) =>
        LET batches == batch_ret.val
        IN  /\ Flattened(batches) = batch_args.iterable
            /\ \A i \in DOMAIN batches :
                  IF i < Len(batches)
                  THEN Len(batches[i]) = batch_args.size
                  ELSE Len(batches[i]) \in 1..batch_args.size
            /\ Len(batch_args.iterable) = 0 => Len(batches) = 0
            /\ (batch_args.iterable = <<1, 2, 3, 4, 5>> /\ batch_args.size = 2)
                   => batches = << <<1, 2>>, <<3, 4>>, <<5>> >>

\* C25, its case: the example of the docstring, with a last batch that is
\* shorter than the others
C25_Witness ==
    /\ batch_ret # Pending
    /\ batch_args = [iterable |-> <<1, 2, 3, 4, 5>>, size |-> 2]
    /\ batch_ret.val = << <<1, 2>>, <<3, 4>>, <<5>> >>

====
